---------------------------- MODULE Spec2Model ----------------------------
(***************************************************************************)
(* Calgary library scraper: the pagination controller of                   *)
(* src/src/scraper.py (scrape_library_data), the per-entry field           *)
(* extraction it performs inline, and the record store and ranking engine  *)
(* of src/src/library_db.py (LibraryDB).                                   *)
(*                                                                         *)
(* Conventions.                                                            *)
(*  - A Python str is a sequence of one-character strings, so that split,  *)
(*    strip, replace, int() and float() are computed, not assumed.         *)
(*  - An optional value (Python None / SQL NULL) is the empty sequence     *)
(*    None; a present value v is the one-element sequence Some(v).         *)
(*  - A float rating is kept in hundredths (4.5 is 450): the arithmetic of *)
(*    set_weighted_averages is then exact rational arithmetic, and         *)
(*    round(x, 2) is rounding to an integer number of hundredths.          *)
(***************************************************************************)
EXTENDS Integers, Sequences, FiniteSets, TLC

VARIABLES
    library_db,        \* the file library.db: [table_exists, library_items]
    pc,                \* position of the running scrape_library_data frame
    depth,             \* number of suspended caller frames (recursive restarts)
    driver,            \* "none" | "open" | "closed": the frame's browsing session
    page_number,       \* local page_number
    target_item_count, \* local target_item_count
    prev_item_count,   \* local prev_item_count
    book_cards,        \* entry fragments of the fetched page not yet processed
    exit_reason,       \* why the process terminated (sys.exit), "" while alive
    ret,               \* value returned by the last LibraryDB call made from outside
    hist               \* bookkeeping for the properties (never read by the program)

vars == <<library_db, pc, depth, driver, page_number, target_item_count,
          prev_item_count, book_cards, exit_reason, ret, hist>>

-----------------------------------------------------------------------------
(* Bounds of the model.                                                    *)

MaxTarget == 2      \* largest total the probe reports
MaxCards == 2       \* most entry fragments on one fetched page
MaxRestarts == 2    \* most recursive restarts explored
MaxInitRows == 1    \* most rows in the store when scrape_library_data is
                    \* called directly on a store the caller did not reset
MaxOps == 3         \* most add_library_item calls between two resets (API runs)
MaxPasses == 2      \* most set_weighted_averages calls between two resets (API runs)
MaxFaults == 1      \* most store operations that raise during one scrape

-----------------------------------------------------------------------------
(* Optional values.                                                        *)

None == <<>>
Some(v) == <<v>>
IsNone(o) == o = <<>>
IsSome(o) == o # <<>>
Val(o) == o[1]

-----------------------------------------------------------------------------
(* Python string operations, on sequences of characters.                   *)

Whitespace == {" ", "\t", "\n"}
Digits == <<"0", "1", "2", "3", "4", "5", "6", "7", "8", "9">>
IsDigit(c) == \E d \in 1..10 : Digits[d] = c
DigitOf(c) == (CHOOSE d \in 1..10 : Digits[d] = c) - 1

RECURSIVE SplitFrom(_, _, _, _, _)
\* str.split(sep, maxsplit): the pieces of s from position i on, cur being the
\* piece under construction; left counts the splits still allowed (-1: no limit).
SplitFrom(s, sep, i, cur, left) ==
    IF i > Len(s) THEN <<cur>>
    ELSE IF left # 0 /\ i + Len(sep) - 1 <= Len(s)
                     /\ SubSeq(s, i, i + Len(sep) - 1) = sep
         THEN <<cur>> \o SplitFrom(s, sep, i + Len(sep), <<>>,
                                   IF left > 0 THEN left - 1 ELSE left)
         ELSE SplitFrom(s, sep, i + 1, Append(cur, s[i]), left)

Split(s, sep, maxsplit) == SplitFrom(s, sep, 1, <<>>, maxsplit)

RECURSIVE Replace(_, _, _)
\* str.replace(old, new) for a one-character old.
Replace(s, old, new) ==
    IF s = <<>> THEN <<>>
    ELSE (IF Head(s) = old THEN new ELSE <<Head(s)>>) \o Replace(Tail(s), old, new)

RECURSIVE LStrip(_, _)
LStrip(s, chars) ==
    IF s # <<>> /\ Head(s) \in chars THEN LStrip(Tail(s), chars) ELSE s

RECURSIVE RStrip(_, _)
RStrip(s, chars) ==
    IF s # <<>> /\ s[Len(s)] \in chars THEN RStrip(SubSeq(s, 1, Len(s) - 1), chars)
    ELSE s

\* str.strip(chars); str.strip() is Strip(s, Whitespace).
Strip(s, chars) == RStrip(LStrip(s, chars), chars)

RECURSIVE ReSubDotSpace(_)
\* re.sub(r'\.\s+', '.', s): a dot followed by whitespace loses the whitespace.
ReSubDotSpace(s) ==
    IF s = <<>> THEN <<>>
    ELSE IF Head(s) = "." /\ Len(s) >= 2 /\ s[2] \in Whitespace
         THEN <<".">> \o ReSubDotSpace(LStrip(Tail(s), Whitespace))
         ELSE <<Head(s)>> \o ReSubDotSpace(Tail(s))

RECURSIVE DigitsValue(_, _)
DigitsValue(s, acc) ==
    IF s = <<>> THEN acc ELSE DigitsValue(Tail(s), 10 * acc + DigitOf(Head(s)))

AllDigits(s) == s # <<>> /\ \A i \in 1..Len(s) : IsDigit(s[i])

\* int(s): surrounding whitespace and one sign are accepted; anything else
\* raises ValueError, modelled as None.
ParseInt(s) ==
    LET t == Strip(s, Whitespace)
        neg == t # <<>> /\ Head(t) = "-"
        u == IF t # <<>> /\ Head(t) \in {"-", "+"} THEN Tail(t) ELSE t
    IN IF AllDigits(u)
       THEN Some(IF neg THEN 0 - DigitsValue(u, 0) ELSE DigitsValue(u, 0))
       ELSE None

\* float(s), in hundredths, for decimal literals with at most two fraction
\* digits (the catalog shows ratings with one); anything else is None.
ParseFloat(s) ==
    LET t == Strip(s, Whitespace)
        parts == Split(t, <<".">>, -1)
        frac == IF Len(parts) = 2 THEN parts[2] ELSE <<>>
    IN IF /\ Len(parts) \in {1, 2}
          /\ AllDigits(parts[1])
          /\ Len(frac) <= 2
          /\ \A i \in 1..Len(frac) : IsDigit(frac[i])
       THEN Some(100 * DigitsValue(parts[1], 0)
                 + (IF Len(frac) = 0 THEN 0
                    ELSE IF Len(frac) = 1 THEN 10 * DigitOf(frac[1])
                    ELSE DigitsValue(frac, 0)))
       ELSE None

-----------------------------------------------------------------------------
(* Entry fragments: one div.cp-search-result-item-content of a result page. *)
(* Each field is the text (or attribute) of one sub-element, None when      *)
(* BeautifulSoup's find returns None for it.                                *)

TxtDune == <<"D", "u", "n", "e">>
TxtEmma == <<"E", "m", "m", "a">>
TxtSaga == <<"S", "a", "g", "a">>
TxtAuthor == <<"L", "e", " ", "G", "u", "i", "n", ",", " ", "U", ".", " ", "K", ".">>
TxtNoComma == <<"A", "n", "o", "n">>
TxtBook1965 == <<"B", "o", "o", "k", ",", " ", "1", "9", "6", "5">>
TxtZine999 == <<"Z", "i", "n", "e", ",", " ", "9", "9", "9">>
TxtPaperback == <<"P", "a", "p", "e", "r", "b", "a", "c", "k">>
TxtStars45 == <<"A", "v", "g", " ", "r", "a", "t", "i", "n", "g", " ", "4", ".", "5", " ", "o", "f", " ", "5">>
TxtStars3 == <<"A", "v", "g", " ", "r", "a", "t", "i", "n", "g", " ", "3", " ", "o", "f", " ", "5">>
TxtStarsBad == <<"N", "o", "t", " ", "r", "a", "t", "e", "d">>
TxtCount1020 == <<"(", "1", ",", "0", "2", "0", " ", "r", "a", "t", "i", "n", "g", "s", ")">>
TxtCount12 == <<"(", "1", "2", " ", "r", "a", "t", "i", "n", "g", "s", ")">>
TxtHref == <<"/", "i", "/", "1">>

FullCard ==
    [title_content |-> Some(TxtDune), cp_subtitle |-> None,
     author_link |-> Some(TxtAuthor), display_info_primary |-> Some(TxtBook1965),
     rating_stars |-> Some(TxtStars45), rating_count |-> Some(TxtCount1020),
     cp_title_href |-> Some(TxtHref)]

\* no star-rating element, rating count present
NoStarsCard == [FullCard EXCEPT !.rating_stars = None, !.rating_count = Some(TxtCount12)]
\* star rating present, no rating-count element
NoCountCard == [FullCard EXCEPT !.rating_stars = Some(TxtStars3), !.rating_count = None]
\* no title element
NoTitleCard == [FullCard EXCEPT !.title_content = None]
\* only a title and a subtitle; everything else missing or malformed
BareCard ==
    [title_content |-> Some(TxtEmma), cp_subtitle |-> Some(TxtSaga),
     author_link |-> Some(TxtNoComma), display_info_primary |-> None,
     rating_stars |-> Some(TxtStarsBad), rating_count |-> Some(TxtCount12),
     cp_title_href |-> None]
\* unknown first descriptor token, year below 1000, a second rating value
ZineCard ==
    [FullCard EXCEPT !.display_info_primary = Some(TxtZine999),
                     !.rating_stars = Some(TxtStars3),
                     !.rating_count = Some(TxtCount12)]

\* The fragments the modelled catalog serves.
CatalogCards == {FullCard, NoStarsCard, NoCountCard, NoTitleCard, BareCard, ZineCard}

-----------------------------------------------------------------------------
(* Field extraction, the body of the for loop of scrape_library_data.      *)
(* Each operator is one try block: None is the field left at its Book()    *)
(* default because the block raised.                                       *)

\* line 128 (not inside a try) and the subtitle block; needs title_content.
TitleOf(card) ==
    Val(card.title_content)
      \o (IF IsSome(card.cp_subtitle) THEN <<":", " ">> \o Val(card.cp_subtitle)
          ELSE <<>>)

AuthorOf(card) ==
    IF IsNone(card.author_link) THEN None
    ELSE LET parts == Split(Val(card.author_link), <<",">>, 1)
         IN IF Len(parts) # 2 THEN None   \* unpacking raises ValueError
            ELSE Some(Replace(parts[1], " ", <<>>) \o <<",", " ">>
                      \o ReSubDotSpace(Strip(parts[2], Whitespace)))

FormatOf(card) ==
    IF IsNone(card.display_info_primary) THEN None
    ELSE Some(Split(Val(card.display_info_primary), <<",", " ">>, -1)[1])

\* Faulty variant: the year is kept whatever its value (no test of line 148).
PubYearOfUnchecked(card) ==
    IF IsNone(card.display_info_primary) THEN None
    ELSE LET parts == Split(Val(card.display_info_primary), <<",", " ">>, -1)
         IN IF Len(parts) < 2 THEN None ELSE ParseInt(parts[2])

PubYearOf(card) ==
    IF IsNone(card.display_info_primary) THEN None
    ELSE LET parts == Split(Val(card.display_info_primary), <<",", " ">>, -1)
             year == IF Len(parts) < 2 THEN None ELSE ParseInt(parts[2])
         IN IF IsSome(year) /\ Val(year) < 1000 THEN None ELSE year

\* first statement of the rating try block
RatingOf(card) ==
    IF IsNone(card.rating_stars) THEN None
    ELSE LET words == Split(Val(card.rating_stars), <<" ">>, -1)
         IN IF Len(words) < 3 THEN None ELSE ParseFloat(words[3])

\* second statement of the rating try block: reached only when the first
\* did not raise; book.rating keeps the value the first statement gave it.
NumRatingsOf(card) ==
    IF IsNone(RatingOf(card)) \/ IsNone(card.rating_count) THEN None
    ELSE ParseInt(Replace(Split(Strip(Val(card.rating_count), {"(", ",", ")"}),
                                <<" ">>, -1)[1],
                          ",", <<>>))

LinkOf(card) == card.cp_title_href

\* Faulty variant: the link is read in the try block of the rating, after it.
BookOfSharedTry(card) ==
    [title |-> Some(TitleOf(card)), author |-> AuthorOf(card),
     format |-> FormatOf(card), pub_year |-> PubYearOf(card),
     rating |-> RatingOf(card), num_ratings |-> NumRatingsOf(card),
     link |-> IF IsNone(RatingOf(card)) THEN None ELSE LinkOf(card)]

\* The Book handed to add_library_item for a card whose title element exists.
BookOf(card) ==
    [title |-> Some(TitleOf(card)), author |-> AuthorOf(card),
     format |-> FormatOf(card), pub_year |-> PubYearOf(card),
     rating |-> RatingOf(card), num_ratings |-> NumRatingsOf(card),
     link |-> LinkOf(card)]

-----------------------------------------------------------------------------
(* LibraryDB: the table library_items of the file library.db.              *)

m == 20  \* minimum ratings required

\* Faulty variant: the seventh value of the INSERT is the book's rating.
RowOfRated(book) ==
    [title |-> book.title, author |-> book.author, format |-> book.format,
     pub_year |-> book.pub_year, rating |-> book.rating,
     num_ratings |-> book.num_ratings, bayesian_avg_rating |-> book.rating,
     link |-> book.link]

RowOf(book) ==
    [title |-> book.title, author |-> book.author, format |-> book.format,
     pub_year |-> book.pub_year, rating |-> book.rating,
     num_ratings |-> book.num_ratings, bayesian_avg_rating |-> None,
     link |-> book.link]

\* Faulty variant: CREATE TABLE IF NOT EXISTS without the DROP.
create_table_no_drop(db) == [table_exists |-> TRUE, library_items |-> db.library_items]

create_table(db) == [table_exists |-> TRUE, library_items |-> <<>>]

\* Faulty variant: DELETE FROM library_items, which empties the table and keeps it.
delete_table_keeps_table(db) == [table_exists |-> db.table_exists, library_items |-> <<>>]

delete_table(db) == [table_exists |-> FALSE, library_items |-> <<>>]

\* INSERT; without the table sqlite3 raises, the handler prints and returns.
add_library_item(db, book) ==
    IF db.table_exists
    THEN [db EXCEPT !.library_items = Append(@, RowOf(book))]
    ELSE db

\* Faulty variant: SELECT COUNT(title), which skips the rows without a title.
get_item_count_titles(db) ==
    IF db.table_exists
    THEN Some(Len(SelectSeq(db.library_items, LAMBDA r : IsSome(r.title))))
    ELSE None

\* SELECT COUNT(*); None when the statement raises.
get_item_count(db) ==
    IF db.table_exists THEN Some(Len(db.library_items)) ELSE None

RECURSIVE SumRating(_)
\* SUM(rating): NULLs are skipped. The rows are summed by halves, which
\* keeps the evaluation shallow on a large table.
SumRating(rows) ==
    IF rows = <<>> THEN 0
    ELSE IF Len(rows) = 1
         THEN (IF IsSome(rows[1].rating) THEN Val(rows[1].rating) ELSE 0)
         ELSE LET h == Len(rows) \div 2
              IN SumRating(SubSeq(rows, 1, h)) + SumRating(SubSeq(rows, h + 1, Len(rows)))

\* COUNT(rating)
CountRating(rows) == Len(SelectSeq(rows, LAMBDA r : IsSome(r.rating)))

\* The integers nearest to num/den (den > 0): both neighbours on an exact
\* tie, where the binary floating-point value decides which way round() goes.
RoundSet(num, den) ==
    LET q == num \div den
        r == num % den
    IN IF 2 * r < den THEN {q}
       ELSE IF 2 * r > den THEN {q + 1}
       ELSE {q, q + 1}

\* round((v / (v + m)) * R + (m / (v + m)) * C, 2) with C = sum/cnt (0 when
\* cnt = 0), in hundredths: (v*R*cnt + m*sum) / (cnt*(v + m)).
BayesianAvgSet(v, R, sum, cnt) ==
    LET n == IF cnt = 0 THEN 1 ELSE cnt
        num == v * R * n + m * sum
        den == n * (v + m)
    IN IF den > 0 THEN RoundSet(num, den) ELSE RoundSet(0 - num, 0 - den)

Qualifies(row) == IsSome(row.rating) /\ IsSome(row.num_ratings)

RECURSIVE UpdatedRowsRatingOnly(_, _, _)
\* Faulty variant: the skip tests the rating alone; a missing count is taken as 0.
UpdatedRowsRatingOnly(rows, sum, cnt) ==
    IF rows = <<>> THEN {<<>>}
    ELSE LET row == Head(rows)
             heads == IF IsSome(row.rating)
                      THEN {[row EXCEPT !.bayesian_avg_rating = Some(b)] :
                              b \in BayesianAvgSet(IF IsSome(row.num_ratings)
                                                   THEN Val(row.num_ratings) ELSE 0,
                                                   Val(row.rating), sum, cnt)}
                      ELSE {row}
         IN {<<h>> \o t : h \in heads,
                           t \in UpdatedRowsRatingOnly(Tail(rows), sum, cnt)}

RECURSIVE UpdatedRows(_, _, _)
\* The for loop over the fetched rows: every outcome of updating each
\* qualifying row of `rows`, the mean being sum/cnt; the rows are taken by
\* halves, in order.
UpdatedRows(rows, sum, cnt) ==
    IF rows = <<>> THEN {<<>>}
    ELSE IF Len(rows) = 1
         THEN LET row == rows[1]
              IN IF Qualifies(row)
                 THEN {<<[row EXCEPT !.bayesian_avg_rating = Some(b)]>> :
                         b \in BayesianAvgSet(Val(row.num_ratings),
                                              Val(row.rating), sum, cnt)}
                 ELSE {<<row>>}
         ELSE LET h == Len(rows) \div 2
              IN {s \o t : s \in UpdatedRows(SubSeq(rows, 1, h), sum, cnt),
                           t \in UpdatedRows(SubSeq(rows, h + 1, Len(rows)), sum, cnt)}

\* Faulty variant: the mean C is taken over the rows that have both rating and
\* num_ratings (WHERE rating IS NOT NULL AND num_ratings IS NOT NULL).
set_weighted_averages_qualified_mean(db) ==
    IF ~db.table_exists THEN {db}
    ELSE LET q == SelectSeq(db.library_items, Qualifies)
         IN {[db EXCEPT !.library_items = rows] :
               rows \in UpdatedRows(db.library_items, SumRating(q), CountRating(q))}

\* The stores set_weighted_averages can leave. A missing table, or v + m = 0
\* (ZeroDivisionError), raises inside the try: rollback, nothing changes.
set_weighted_averages(db) ==
    IF \/ ~db.table_exists
       \/ \E i \in 1..Len(db.library_items) :
              /\ Qualifies(db.library_items[i])
              /\ Val(db.library_items[i].num_ratings) + m = 0
    THEN {db}
    ELSE {[db EXCEPT !.library_items = rows] :
            rows \in UpdatedRows(db.library_items, SumRating(db.library_items),
                                 CountRating(db.library_items))}

\* The uncommitted stores of a pass that raises at its k-th fetched row: the
\* qualifying rows before row k carry their UPDATE, the others do not.
UncommittedAt(db, k) ==
    {[db EXCEPT !.library_items = rows \o SubSeq(db.library_items, k, Len(db.library_items))] :
       rows \in UpdatedRows(SubSeq(db.library_items, 1, k - 1),
                            SumRating(db.library_items), CountRating(db.library_items))}

\* Faulty variant: every UPDATE is committed as it is made, so the rollback
\* of the handler undoes nothing.
set_weighted_averages_fault_autocommit(db, k) == UncommittedAt(db, k)

\* The stores a pass leaves when it raises at its k-th fetched row (on the
\* arithmetic of line 159 or the UPDATE of lines 160-167): the handler of
\* lines 172-176 rolls the transaction back, and no commit was made before.
set_weighted_averages_fault(db, k) ==
    {db : u \in UncommittedAt(db, k)}

-----------------------------------------------------------------------------
(* scrape_library_data.                                                    *)

SeqsUpTo(S, n) == UNION {[1..k -> S] : k \in 0..n}

NoRet == [op |-> "", ok |-> TRUE, val |-> <<>>]

Hist0 ==
    [swa_calls |-> 0,      \* set_weighted_averages calls made by the scrape
     restarts |-> 0,       \* restarts taken by the scrape
     inserts |-> 0,        \* successful inserts since the last create_table
     added |-> <<>>,       \* the books the callers of the store inserted since then
     passes |-> 0,         \* set_weighted_averages calls since the last create_table
     fetches |-> 0,        \* pages fetched by the current attempt
     count_before |-> 0,   \* number of rows when the current page was fetched
     stagnant |-> FALSE,   \* some processed page of this attempt added no row
     stagnant_ever |-> FALSE, \* some processed page of this scrape added no row
     fault |-> "",         \* the browsing fault that occurred: driver, probe, fetch
     store_faults |-> 0,   \* store operations that raised
     fault_row |-> 0,      \* the row at which the last faulted pass raised
     restarted_target |-> 0]  \* the total probed by the last attempt that restarted

\* sys.exit(1): SystemExit is not an Exception, so no handler of
\* scrape_library_data catches it and the process ends.
Exit(reason) ==
    /\ pc' = "exit"
    /\ exit_reason' = reason

\* lines 101-103: a fresh frame opens its browsing session.
GetDriver ==
    /\ pc = "get_driver"
    /\ driver' = "open"
    /\ page_number' = 1
    /\ pc' = "probe"
    /\ UNCHANGED <<library_db, depth, target_item_count, prev_item_count,
                   book_cards, exit_reason, ret, hist>>

\* Faulty variant: the probe without the test of lines 105-107.
ProbeNoZeroTest ==
    /\ pc = "probe"
    /\ \E t \in 0..MaxTarget : target_item_count' = t
    /\ pc' = "loop"
    /\ prev_item_count' = Some(0)
    /\ UNCHANGED <<library_db, depth, driver, page_number, book_cards,
                   exit_reason, ret, hist>>

\* lines 104-109: the probe reports any total; 0 is also what
\* _get_target_item_count returns when the label cannot be parsed.
Probe ==
    /\ pc = "probe"
    /\ \E t \in 0..MaxTarget :
         /\ target_item_count' = t
         /\ IF t = 0
            THEN /\ Exit("no_results")
                 /\ UNCHANGED prev_item_count
            ELSE /\ pc' = "loop"
                 /\ prev_item_count' = Some(0)
                 /\ UNCHANGED exit_reason
    /\ UNCHANGED <<library_db, depth, driver, page_number, book_cards, ret, hist>>

\* line 110 true, lines 111-124: the page is fetched; the catalog serves any
\* sequence of fragments, whatever the page number.
FetchPage ==
    /\ pc = "loop"
    /\ IsSome(get_item_count(library_db))
    /\ Val(get_item_count(library_db)) < target_item_count
    /\ \E cards \in SeqsUpTo(CatalogCards, MaxCards) : book_cards' = cards
    /\ pc' = "cards"
    /\ hist' = [hist EXCEPT !.count_before = Len(library_db.library_items),
                            !.fetches = @ + 1]
    /\ UNCHANGED <<library_db, depth, driver, page_number, target_item_count,
                   prev_item_count, exit_reason, ret>>

\* line 110 false: the while loop ends.
LoopExit ==
    /\ pc = "loop"
    /\ IsSome(get_item_count(library_db))
    /\ ~(Val(get_item_count(library_db)) < target_item_count)
    /\ pc' = "quit"
    /\ UNCHANGED <<library_db, depth, driver, page_number, target_item_count,
                   prev_item_count, book_cards, exit_reason, ret, hist>>

\* line 110 with get_item_count() = None: None < int raises TypeError,
\* caught at line 179.
LoopTypeError ==
    /\ pc = "loop"
    /\ IsNone(get_item_count(library_db))
    /\ Exit("exception")
    /\ UNCHANGED <<library_db, depth, driver, page_number, target_item_count,
                   prev_item_count, book_cards, ret, hist>>

\* lines 127-162 for one card. Without a title element line 128 raises
\* AttributeError outside every inner try: caught at line 179, sys.exit(1).
ProcessCard ==
    /\ pc = "cards"
    /\ book_cards # <<>>
    /\ LET card == Head(book_cards)
       IN IF IsNone(card.title_content)
          THEN /\ Exit("exception")
               /\ UNCHANGED <<library_db, book_cards, hist>>
          ELSE /\ library_db' = add_library_item(library_db, BookOf(card))
               /\ book_cards' = Tail(book_cards)
               /\ hist' = [hist EXCEPT !.inserts =
                              IF library_db.table_exists THEN @ + 1 ELSE @]
               /\ UNCHANGED <<pc, exit_reason>>
    /\ UNCHANGED <<depth, driver, page_number, target_item_count,
                   prev_item_count, ret>>

\* Faulty variant: the stagnation test never succeeds.
StagnatedNever(db, prev) == FALSE

\* line 164: the stagnation test
Stagnated(db, prev) == get_item_count(db) = prev

\* Faulty variant: the end of the page without the increment of line 167.
EndOfPageNoIncrement ==
    /\ pc = "cards"
    /\ book_cards = <<>>
    /\ IF Stagnated(library_db, prev_item_count)
       THEN /\ pc' = "quit"
            /\ UNCHANGED prev_item_count
       ELSE /\ pc' = "loop"
            /\ prev_item_count' = get_item_count(library_db)
    /\ LET added_none == Len(library_db.library_items) = hist.count_before
       IN hist' = [hist EXCEPT !.stagnant = @ \/ added_none,
                               !.stagnant_ever = @ \/ added_none]
    /\ UNCHANGED <<library_db, depth, driver, page_number, target_item_count,
                   book_cards, exit_reason, ret>>

\* Faulty variant: the end of the page without the assignment of line 168.
EndOfPageKeepsPrev ==
    /\ pc = "cards"
    /\ book_cards = <<>>
    /\ IF Stagnated(library_db, prev_item_count)
       THEN /\ pc' = "quit"
            /\ UNCHANGED page_number
       ELSE /\ pc' = "loop"
            /\ page_number' = page_number + 1
    /\ LET added_none == Len(library_db.library_items) = hist.count_before
       IN hist' = [hist EXCEPT !.stagnant = @ \/ added_none,
                               !.stagnant_ever = @ \/ added_none]
    /\ UNCHANGED <<library_db, depth, driver, target_item_count, prev_item_count,
                   book_cards, exit_reason, ret>>

\* lines 164-168, after the last card of the page.
EndOfPage ==
    /\ pc = "cards"
    /\ book_cards = <<>>
    /\ IF Stagnated(library_db, prev_item_count)
       THEN /\ pc' = "quit"
            /\ UNCHANGED <<page_number, prev_item_count>>
       ELSE /\ pc' = "loop"
            /\ page_number' = page_number + 1
            /\ prev_item_count' = get_item_count(library_db)
    /\ LET added_none == Len(library_db.library_items) = hist.count_before
       IN hist' = [hist EXCEPT !.stagnant = @ \/ added_none,
                               !.stagnant_ever = @ \/ added_none]
    /\ UNCHANGED <<library_db, depth, driver, target_item_count, book_cards,
                   exit_reason, ret>>

\* line 170
DriverQuit ==
    /\ pc = "quit"
    /\ driver' = "closed"
    /\ pc' = "reconcile"
    /\ UNCHANGED <<library_db, depth, page_number, target_item_count,
                   prev_item_count, book_cards, exit_reason, ret, hist>>

\* Faulty variant: the restart without the create_table() of line 174.
RestartNoReset ==
    /\ pc = "reconcile"
    /\ Some(target_item_count) # get_item_count(library_db)
    /\ depth < MaxRestarts
    /\ depth' = depth + 1
    /\ driver' = "none"
    /\ pc' = "get_driver"
    /\ hist' = [hist EXCEPT !.restarts = @ + 1, !.inserts = 0, !.passes = 0,
                            !.fetches = 0, !.stagnant = FALSE]
    /\ UNCHANGED <<library_db, page_number, target_item_count, prev_item_count,
                   book_cards, exit_reason, ret>>

\* lines 172-175: the store is reset and scrape_library_data calls itself;
\* the calling frame waits at line 177.
Restart ==
    /\ pc = "reconcile"
    /\ Some(target_item_count) # get_item_count(library_db)
    /\ depth < MaxRestarts
    /\ library_db' = create_table(library_db)
    /\ depth' = depth + 1
    /\ driver' = "none"
    /\ pc' = "get_driver"
    /\ hist' = [hist EXCEPT !.restarts = @ + 1, !.inserts = 0, !.passes = 0,
                            !.fetches = 0, !.stagnant = FALSE]
    /\ UNCHANGED <<page_number, target_item_count, prev_item_count, book_cards,
                   exit_reason, ret>>

\* Faulty variant: line 172 tests that the store is no larger than the target.
ProceedAtMost ==
    /\ pc = "reconcile"
    /\ IsSome(get_item_count(library_db))
    /\ Val(get_item_count(library_db)) <= target_item_count
    /\ pc' = "finalize"
    /\ UNCHANGED <<library_db, depth, driver, page_number, target_item_count,
                   prev_item_count, book_cards, exit_reason, ret, hist>>

\* line 172 false
Proceed ==
    /\ pc = "reconcile"
    /\ Some(target_item_count) = get_item_count(library_db)
    /\ pc' = "finalize"
    /\ UNCHANGED <<library_db, depth, driver, page_number, target_item_count,
                   prev_item_count, book_cards, exit_reason, ret, hist>>

\* line 177, then the frame returns: to the frame that restarted it, which
\* resumes at its own line 177, or to the caller of the scrape.
Finalize ==
    /\ pc = "finalize"
    /\ library_db' \in set_weighted_averages(library_db)
    /\ hist' = [hist EXCEPT !.swa_calls = @ + 1, !.passes = @ + 1]
    /\ IF depth > 0
       THEN /\ depth' = depth - 1
            /\ UNCHANGED pc
       ELSE /\ pc' = "done"
            /\ UNCHANGED depth
    /\ UNCHANGED <<driver, page_number, target_item_count, prev_item_count,
                   book_cards, exit_reason, ret>>

\* The steps of a scrape started by main.py. The table then exists
\* throughout, so get_item_count never returns None.
Next ==
    \/ GetDriver
    \/ Probe
    \/ FetchPage
    \/ LoopExit
    \/ ProcessCard
    \/ EndOfPage
    \/ DriverQuit
    \/ Restart
    \/ Proceed
    \/ Finalize

\* The state in which scrape_library_data is entered, given the store.
ScrapeEntry(db) ==
    /\ library_db = db
    /\ pc = "get_driver"
    /\ depth = 0
    /\ driver = "none"
    /\ page_number = 0
    /\ target_item_count = 0
    /\ prev_item_count = None
    /\ book_cards = <<>>
    /\ exit_reason = ""
    /\ ret = NoRet
    /\ hist = Hist0

\* main.py: create_table(), then scrape_library_data on the empty table.
Init == ScrapeEntry(create_table([table_exists |-> FALSE, library_items |-> <<>>]))

Spec == Init /\ [][Next]_vars

\* Restart, the total probed by the restarting attempt being kept in hist.
RestartKeepingTarget ==
    /\ pc = "reconcile"
    /\ Some(target_item_count) # get_item_count(library_db)
    /\ depth < MaxRestarts
    /\ library_db' = create_table(library_db)
    /\ depth' = depth + 1
    /\ driver' = "none"
    /\ pc' = "get_driver"
    /\ hist' = [hist EXCEPT !.restarts = @ + 1, !.inserts = 0, !.passes = 0,
                            !.fetches = 0, !.stagnant = FALSE,
                            !.restarted_target = target_item_count]
    /\ UNCHANGED <<page_number, target_item_count, prev_item_count, book_cards,
                   exit_reason, ret>>

\* The steps of the scrape, the restarts keeping the total they abandon.
NextKeepingTarget ==
    \/ GetDriver
    \/ Probe
    \/ FetchPage
    \/ LoopExit
    \/ ProcessCard
    \/ EndOfPage
    \/ DriverQuit
    \/ RestartKeepingTarget
    \/ Proceed
    \/ Finalize

SpecKeepingTarget == Init /\ [][NextKeepingTarget]_vars

\* The record extracted from each fragment of the catalog that has a title,
\* tabulated.
CatalogBookOf == [c \in {k \in CatalogCards : IsSome(k.title_content)} |-> BookOf(c)]

\* ProcessCard on the fragments of the catalog, the record of the card read
\* from the table. On the steps of Spec it is ProcessCard.
ProcessCatalogCard ==
    /\ pc = "cards"
    /\ book_cards # <<>>
    /\ Head(book_cards) \in CatalogCards
    /\ LET card == Head(book_cards)
       IN IF IsNone(card.title_content)
          THEN /\ Exit("exception")
               /\ UNCHANGED <<library_db, book_cards, hist>>
          ELSE /\ library_db' = add_library_item(library_db, CatalogBookOf[card])
               /\ book_cards' = Tail(book_cards)
               /\ hist' = [hist EXCEPT !.inserts =
                              IF library_db.table_exists THEN @ + 1 ELSE @]
               /\ UNCHANGED <<pc, exit_reason>>
    /\ UNCHANGED <<depth, driver, page_number, target_item_count,
                   prev_item_count, ret>>

\* The statements of one attempt other than the body of the for loop:
\* lines 101-124 and 164-170.
OutsideCards ==
    \/ GetDriver
    \/ Probe
    \/ FetchPage
    \/ LoopExit
    \/ EndOfPage
    \/ DriverQuit

\* One attempt, from the opening of its session to the closing of it.
NextAttempt ==
    \/ OutsideCards
    \/ ProcessCard

\* The attempt main.py starts on the empty table, as a running process: the
\* interpreter executes the next statement whenever there is one, and every
\* page request returns.
SpecLive ==
    /\ Init
    /\ [][NextAttempt]_vars
    /\ WF_vars(OutsideCards)
    /\ WF_vars(ProcessCatalogCard)

\* The books the modelled catalog can produce.
CatalogBooks == {BookOf(c) : c \in {k \in CatalogCards : IsSome(k.title_content)}}

\* scrape_library_data called on a store in any state: no table, or a table
\* holding rows of earlier scrapes, ranked or not.
InitialStores ==
    LET plain == {[table_exists |-> TRUE, library_items |-> rows] :
                    rows \in SeqsUpTo({RowOf(b) : b \in CatalogBooks}, MaxInitRows)}
    IN {[table_exists |-> FALSE, library_items |-> <<>>]}
         \cup plain \cup UNION {set_weighted_averages(d) : d \in plain}

InitAnyStore == \E db \in InitialStores : ScrapeEntry(db)

NextAnyStore ==
    \/ Next
    \/ LoopTypeError

SpecAnyStore == InitAnyStore /\ [][NextAnyStore]_vars

-----------------------------------------------------------------------------
(* The body of the for loop on one fetched card, for every combination of  *)
(* present, missing and malformed sub-elements.                            *)

\* The fragments a page can hold: each sub-element missing, well-formed or
\* malformed, independently of the others.
AnyCards ==
    [title_content : {None, Some(TxtDune)},
     cp_subtitle : {None, Some(TxtSaga)},
     author_link : {None, Some(TxtAuthor), Some(TxtNoComma)},
     display_info_primary : {None, Some(TxtBook1965), Some(TxtZine999),
                             Some(TxtPaperback)},
     rating_stars : {None, Some(TxtStars45), Some(TxtStars3), Some(TxtStarsBad)},
     rating_count : {None, Some(TxtCount1020), Some(TxtCount12)},
     cp_title_href : {None, Some(TxtHref)}]

\* scrape_library_data at line 126, on page 1 of a first attempt that
\* fetched one card into the empty table.
InitExtract ==
    /\ library_db = create_table([table_exists |-> FALSE, library_items |-> <<>>])
    /\ pc = "cards"
    /\ depth = 0
    /\ driver = "open"
    /\ page_number = 1
    /\ target_item_count = 1
    /\ prev_item_count = Some(0)
    /\ \E card \in AnyCards : book_cards = <<card>>
    /\ exit_reason = ""
    /\ ret = NoRet
    /\ hist = [Hist0 EXCEPT !.fetches = 1]

NextExtract == ProcessCard

SpecExtract == InitExtract /\ [][NextExtract]_vars

-----------------------------------------------------------------------------
(* The scrape with faults of its environment: the browser cannot start,    *)
(* the probe request fails, a page load fails, an INSERT fails.            *)

\* lines 33-46: webdriver.Chrome raises; the bare except of _get_driver
\* prints and calls sys.exit(1).
GetDriverFault ==
    /\ pc = "get_driver"
    /\ Exit("driver_error")
    /\ hist' = [hist EXCEPT !.fault = "driver"]
    /\ UNCHANGED <<library_db, depth, driver, page_number, target_item_count,
                   prev_item_count, book_cards, ret>>

\* lines 71-84: requests.get raises; the outer bare except of
\* _get_target_item_count prints and calls sys.exit(1).
ProbeFault ==
    /\ pc = "probe"
    /\ Exit("probe_error")
    /\ hist' = [hist EXCEPT !.fault = "probe"]
    /\ UNCHANGED <<library_db, depth, driver, page_number, target_item_count,
                   prev_item_count, book_cards, ret>>

\* Faulty variant: a failed page load is retried by the loop.
FetchFaultRetried ==
    /\ pc = "loop"
    /\ IsSome(get_item_count(library_db))
    /\ Val(get_item_count(library_db)) < target_item_count
    /\ hist.fault = ""
    /\ hist' = [hist EXCEPT !.fault = "fetch"]
    /\ UNCHANGED <<library_db, pc, depth, driver, page_number, target_item_count,
                   prev_item_count, book_cards, exit_reason, ret>>

\* line 121: driver.get raises inside the while loop; the exception is
\* caught at line 179, which calls sys.exit(1).
FetchFault ==
    /\ pc = "loop"
    /\ IsSome(get_item_count(library_db))
    /\ Val(get_item_count(library_db)) < target_item_count
    /\ Exit("exception")
    /\ hist' = [hist EXCEPT !.fault = "fetch"]
    /\ UNCHANGED <<library_db, depth, driver, page_number, target_item_count,
                   prev_item_count, book_cards, ret>>

\* line 162 with library_db.py 116-131: the INSERT (or the commit) raises;
\* the handler of add_library_item prints, rolls back and returns, and the
\* for loop goes on with the next card.
InsertFault ==
    /\ pc = "cards"
    /\ book_cards # <<>>
    /\ IsSome(Head(book_cards).title_content)
    /\ hist.store_faults < MaxFaults
    /\ book_cards' = Tail(book_cards)
    /\ hist' = [hist EXCEPT !.store_faults = @ + 1]
    /\ UNCHANGED <<library_db, pc, depth, driver, page_number, target_item_count,
                   prev_item_count, exit_reason, ret>>

\* line 162 with library_db.py 115 and 127-131: sqlite3.connect raises, so
\* conn is unbound when the handler tests it; the UnboundLocalError leaves
\* add_library_item and is caught at line 179 of the scraper.
InsertConnectFault ==
    /\ pc = "cards"
    /\ book_cards # <<>>
    /\ IsSome(Head(book_cards).title_content)
    /\ hist.store_faults < MaxFaults
    /\ Exit("exception")
    /\ hist' = [hist EXCEPT !.store_faults = @ + 1]
    /\ UNCHANGED <<library_db, depth, driver, page_number, target_item_count,
                   prev_item_count, book_cards, ret>>

NextFaults ==
    \/ Next
    \/ GetDriverFault
    \/ ProbeFault
    \/ FetchFault
    \/ InsertFault
    \/ InsertConnectFault

\* main.py, in an environment that can fail
SpecFaults == Init /\ [][NextFaults]_vars

-----------------------------------------------------------------------------
(* The queries of LibraryDB. A query is the set of values it can return:   *)
(* SQL leaves the order of rows with equal sort keys, the row a bare       *)
(* column of a GROUP BY is taken from, and the direction ROUND takes on an *)
(* exact tie of the floating-point average, to the engine.                 *)

TopCap == 10        \* fetchmany(10)
FrequentCap == 20   \* fetchmany(20)

\* The characters of the modelled texts in code-point order (BINARY collation).
Alphabet ==
    <<" ", "(", ")", ",", "-", ".", "/",
      "0", "1", "2", "3", "4", "5", "6", "7", "8", "9", ":",
      "A", "B", "C", "D", "E", "F", "G", "H", "I", "J", "K", "L", "M",
      "N", "O", "P", "Q", "R", "S", "T", "U", "V", "W", "X", "Y", "Z",
      "a", "b", "c", "d", "e", "f", "g", "h", "i", "j", "k", "l", "m",
      "n", "o", "p", "q", "r", "s", "t", "u", "v", "w", "x", "y", "z">>
CharCode(c) == CHOOSE i \in 1..Len(Alphabet) : Alphabet[i] = c

\* a < b for TEXT values
StrLess(a, b) ==
    \/ Len(a) < Len(b) /\ SubSeq(b, 1, Len(a)) = a
    \/ \E i \in 1..(IF Len(a) < Len(b) THEN Len(a) ELSE Len(b)) :
         /\ CharCode(a[i]) < CharCode(b[i])
         /\ SubSeq(a, 1, i - 1) = SubSeq(b, 1, i - 1)

\* Faulty variant: fetchall(), every row of the result.
FetchAll(s, n) == s

\* cursor.fetchmany(n)
FetchMany(s, n) == SubSeq(s, 1, IF Len(s) < n THEN Len(s) ELSE n)

RemoveAt(s, i) == SubSeq(s, 1, i - 1) \o SubSeq(s, i + 1, Len(s))

\* key a sorts strictly before key b (keys: integer tuples, larger first)
KeyBefore(a, b) ==
    \E i \in 1..Len(a) : a[i] > b[i] /\ \A j \in 1..(i - 1) : a[j] = b[j]

RECURSIVE SortedDesc(_)
\* ORDER BY ... DESC over items [key, row]: every order of the rows in
\* which no row follows one with a strictly smaller key.
SortedDesc(items) ==
    IF items = <<>> THEN {<<>>}
    ELSE UNION {{<<items[i].row>> \o t : t \in SortedDesc(RemoveAt(items, i))} :
                  i \in {k \in 1..Len(items) :
                           \A j \in 1..Len(items) :
                               ~KeyBefore(items[j].key, items[k].key)}}

RECURSIVE SeqOf(_)
\* the elements of a finite set, in some order
SeqOf(S) ==
    IF S = {} THEN <<>>
    ELSE LET x == CHOOSE y \in S : TRUE IN <<x>> \o SeqOf(S \ {x})

RowTuple(r) ==
    <<r.title, r.author, r.format, r.pub_year, r.rating, r.num_ratings,
      r.bayesian_avg_rating, r.link>>

Returned(list) == [ok |-> TRUE, val |-> list]
ReturnedNone == [ok |-> FALSE, val |-> <<>>]   \* the except branch: return None

\* Faulty variant: SELECT DISTINCT *, one row per distinct record.
get_all_library_items_distinct(db) ==
    LET rows == db.library_items
        first == SelectSeq([i \in 1..Len(rows) |-> i],
                           LAMBDA i : \A k \in 1..(i - 1) : rows[k] # rows[i])
    IN {Returned([i \in 1..Len(first) |-> RowTuple(rows[first[i]])])}

\* SELECT * without ORDER BY: SQLite scans the table in rowid order, which
\* is the insertion order as no row is ever deleted from the table.
get_all_library_items(db) ==
    {Returned([i \in 1..Len(db.library_items) |-> RowTuple(db.library_items[i])])}

get_frequent_authors(db) ==
    IF ~db.table_exists THEN {ReturnedNone}
    ELSE LET rows == SelectSeq(db.library_items, LAMBDA r : IsSome(r.author))
             authors == {rows[i].author : i \in 1..Len(rows)}
             n(a) == Len(SelectSeq(rows, LAMBDA r : r.author = a))
         IN {Returned(FetchMany(s, FrequentCap)) :
               s \in SortedDesc(SeqOf({[key |-> <<n(a)>>, row |-> <<a, n(a)>>] :
                                         a \in authors}))}

\* Faulty variant: ORDER BY format_count DESC alone, equal counts in any order.
get_format_data_by_count(db) ==
    IF ~db.table_exists THEN {ReturnedNone}
    ELSE LET rows == SelectSeq(db.library_items, LAMBDA r : IsSome(r.format))
             formats == {rows[i].format : i \in 1..Len(rows)}
             n(f) == Len(SelectSeq(rows, LAMBDA r : r.format = f))
         IN {Returned(s) :
               s \in SortedDesc(SeqOf({[key |-> <<n(f)>>, row |-> <<f, n(f)>>] :
                                         f \in formats}))}

get_format_data(db) ==
    IF ~db.table_exists THEN {ReturnedNone}
    ELSE LET rows == SelectSeq(db.library_items, LAMBDA r : IsSome(r.format))
             formats == {rows[i].format : i \in 1..Len(rows)}
             n(f) == Len(SelectSeq(rows, LAMBDA r : r.format = f))
             rank(f) == Cardinality({g \in formats : StrLess(Val(g), Val(f))})
         IN {Returned(s) :
               s \in SortedDesc(SeqOf({[key |-> <<n(f), 0 - rank(f)>>,
                                        row |-> <<f, n(f)>>] : f \in formats}))}

get_pub_year_data(db) ==
    IF ~db.table_exists THEN {ReturnedNone}
    ELSE LET rows == SelectSeq(db.library_items, LAMBDA r : IsSome(r.pub_year))
             years == {rows[i].pub_year : i \in 1..Len(rows)}
             n(y) == Len(SelectSeq(rows, LAMBDA r : r.pub_year = y))
         IN {Returned(s) :
               s \in SortedDesc(SeqOf({[key |-> <<Val(y)>>, row |-> <<y, n(y)>>] :
                                         y \in years}))}

get_top_books_unweighted(db) ==
    IF ~db.table_exists THEN {ReturnedNone}
    ELSE LET rows == SelectSeq(db.library_items, LAMBDA r : IsSome(r.rating))
         IN {Returned(FetchMany(s, TopCap)) :
               s \in SortedDesc([i \in 1..Len(rows) |->
                       [key |-> <<Val(rows[i].rating)>>,
                        row |-> <<rows[i].title, rows[i].author, rows[i].rating>>]])}

get_top_books_weighted(db) ==
    IF ~db.table_exists THEN {ReturnedNone}
    ELSE LET rows == SelectSeq(db.library_items,
                               LAMBDA r : IsSome(r.bayesian_avg_rating))
         IN {Returned(FetchMany(s, TopCap)) :
               s \in SortedDesc([i \in 1..Len(rows) |->
                       [key |-> <<Val(rows[i].bayesian_avg_rating)>>,
                        row |-> <<rows[i].title, rows[i].author,
                                  rows[i].bayesian_avg_rating>>]])}

\* Faulty variant: the aggregate without its GROUP BY, which yields exactly one row,
\* (NULL, NULL) on an empty selection.
get_top_authors_unweighted_no_group(db) ==
    IF ~db.table_exists THEN {ReturnedNone}
    ELSE LET rows == SelectSeq(db.library_items, LAMBDA r : IsSome(r.rating))
         IN IF rows = <<>> THEN {Returned(<<<<None, None>>>>)}
            ELSE {Returned(<<<<rows[i].author, Some(a)>>>>) :
                    i \in 1..Len(rows), a \in RoundSet(SumRating(rows), Len(rows))}

RECURSIVE PickEach(_, _)
\* One output row per group of a GROUP BY: as lists the groups, vals[a] the
\* values the engine can give group a; the result is every list of items.
PickEach(as, vals) ==
    IF as = <<>> THEN {<<>>}
    ELSE {<<[key |-> <<v>>, row |-> <<Head(as), Some(v)>>]>> \o t :
            v \in vals[Head(as)], t \in PickEach(Tail(as), vals)}

\* GROUP BY author keeps the rows without an author as one group.
get_top_authors_unweighted(db) ==
    IF ~db.table_exists THEN {ReturnedNone}
    ELSE LET rows == SelectSeq(db.library_items, LAMBDA r : IsSome(r.rating))
             authors == {rows[i].author : i \in 1..Len(rows)}
             group(a) == SelectSeq(rows, LAMBDA r : r.author = a)
             avg == [a \in authors |-> RoundSet(SumRating(group(a)), Len(group(a)))]
         IN UNION {{Returned(FetchMany(s, TopCap)) : s \in SortedDesc(items)} :
                     items \in PickEach(SeqOf(authors), avg)}

\* Faulty variant: the selection without its GROUP BY, one row per ranked record.
get_top_authors_weighted_no_group(db) ==
    IF ~db.table_exists THEN {ReturnedNone}
    ELSE LET rows == SelectSeq(db.library_items,
                               LAMBDA r : IsSome(r.bayesian_avg_rating))
         IN {Returned(FetchMany(s, TopCap)) :
               s \in SortedDesc([i \in 1..Len(rows) |->
                       [key |-> <<Val(rows[i].bayesian_avg_rating)>>,
                        row |-> <<rows[i].author, rows[i].bayesian_avg_rating>>]])}

\* bayesian_avg_rating is a bare column of the GROUP BY: one row per author,
\* its value taken from any row of the author's group.
get_top_authors_weighted(db) ==
    IF ~db.table_exists THEN {ReturnedNone}
    ELSE LET rows == SelectSeq(db.library_items,
                               LAMBDA r : IsSome(r.bayesian_avg_rating))
             authors == {rows[i].author : i \in 1..Len(rows)}
             values == [a \in authors |->
                          {Val(rows[i].bayesian_avg_rating) :
                             i \in {k \in 1..Len(rows) : rows[k].author = a}}]
         IN UNION {{Returned(FetchMany(s, TopCap)) : s \in SortedDesc(items)} :
                     items \in PickEach(SeqOf(authors), values)}

get_ratings_per_num_ratings(db) ==
    IF ~db.table_exists THEN {ReturnedNone}
    ELSE LET rows == SelectSeq(db.library_items, Qualifies)
         IN {Returned([i \in 1..Len(rows) |->
                         <<rows[i].num_ratings, rows[i].rating>>])}

-----------------------------------------------------------------------------
(* LibraryDB driven through its methods, in any order, as the tests do.    *)

\* Book(): every attribute None
EmptyBook ==
    [title |-> None, author |-> None, format |-> None, pub_year |-> None,
     rating |-> None, num_ratings |-> None, link |-> None]

\* The books the modelled callers insert.
ApiBooks == CatalogBooks \cup {EmptyBook}

ListQueries ==
    {"get_frequent_authors", "get_format_data", "get_pub_year_data",
     "get_top_books_unweighted", "get_top_books_weighted",
     "get_top_authors_unweighted", "get_top_authors_weighted",
     "get_ratings_per_num_ratings"}

\* The values query q can return on store db.
QueryResults(q, db) ==
    CASE q = "get_frequent_authors" -> get_frequent_authors(db)
      [] q = "get_format_data" -> get_format_data(db)
      [] q = "get_pub_year_data" -> get_pub_year_data(db)
      [] q = "get_top_books_unweighted" -> get_top_books_unweighted(db)
      [] q = "get_top_books_weighted" -> get_top_books_weighted(db)
      [] q = "get_top_authors_unweighted" -> get_top_authors_unweighted(db)
      [] q = "get_top_authors_weighted" -> get_top_authors_weighted(db)
      [] q = "get_ratings_per_num_ratings" -> get_ratings_per_num_ratings(db)

ScraperIdle ==
    UNCHANGED <<depth, driver, page_number, target_item_count, prev_item_count,
                book_cards>>

ApiCreateTable ==
    /\ pc = "api"
    /\ library_db' = create_table(library_db)
    /\ ret' = [op |-> "create_table", ok |-> TRUE, val |-> <<>>]
    /\ hist' = [hist EXCEPT !.inserts = 0, !.passes = 0, !.added = <<>>]
    /\ ScraperIdle
    /\ UNCHANGED <<pc, exit_reason>>

ApiDeleteTable ==
    /\ pc = "api"
    /\ library_db' = delete_table(library_db)
    /\ ret' = [op |-> "delete_table", ok |-> TRUE, val |-> <<>>]
    /\ ScraperIdle
    /\ UNCHANGED <<pc, exit_reason, hist>>

ApiAddLibraryItem ==
    /\ pc = "api"
    /\ hist.inserts < MaxOps
    /\ \E book \in ApiBooks :
         /\ library_db' = add_library_item(library_db, book)
         /\ hist' = [hist EXCEPT
                       !.inserts = IF library_db.table_exists THEN @ + 1 ELSE @,
                       !.added = IF library_db.table_exists THEN Append(@, book) ELSE @]
    /\ ret' = [op |-> "add_library_item", ok |-> TRUE, val |-> <<>>]
    /\ ScraperIdle
    /\ UNCHANGED <<pc, exit_reason>>

ApiSetWeightedAverages ==
    /\ pc = "api"
    /\ hist.passes < MaxPasses
    /\ library_db' \in set_weighted_averages(library_db)
    /\ ret' = [op |-> "set_weighted_averages", ok |-> TRUE, val |-> <<>>]
    /\ hist' = [hist EXCEPT !.passes = @ + 1]
    /\ ScraperIdle
    /\ UNCHANGED <<pc, exit_reason>>

\* A set_weighted_averages call that raises at row k of its loop: the handler
\* prints, rolls back, closes, and the call returns None to its caller.
ApiSetWeightedAveragesFault ==
    /\ pc = "api"
    /\ library_db.table_exists
    /\ hist.store_faults < MaxFaults
    /\ \E k \in 1..Len(library_db.library_items) :
         /\ Qualifies(library_db.library_items[k])
         /\ library_db' \in set_weighted_averages_fault(library_db, k)
         /\ hist' = [hist EXCEPT !.store_faults = @ + 1, !.fault_row = k]
    /\ ret' = [op |-> "set_weighted_averages", ok |-> FALSE, val |-> <<>>]
    /\ ScraperIdle
    /\ UNCHANGED <<pc, exit_reason>>

ApiGetItemCount ==
    /\ pc = "api"
    /\ ret' = [op |-> "get_item_count", ok |-> IsSome(get_item_count(library_db)),
               val |-> get_item_count(library_db)]
    /\ ScraperIdle
    /\ UNCHANGED <<library_db, pc, exit_reason, hist>>

\* get_all_library_items: its handler ends the process (sys.exit(1)).
ApiGetAllLibraryItems ==
    /\ pc = "api"
    /\ IF library_db.table_exists
       THEN /\ \E r \in get_all_library_items(library_db) :
                 ret' = [op |-> "get_all_library_items", ok |-> r.ok, val |-> r.val]
            /\ UNCHANGED <<pc, exit_reason>>
       ELSE /\ Exit("database_error")
            /\ UNCHANGED ret
    /\ ScraperIdle
    /\ UNCHANGED <<library_db, hist>>

ApiQuery ==
    /\ pc = "api"
    /\ \E q \in ListQueries :
         \E r \in QueryResults(q, library_db) :
             ret' = [op |-> q, ok |-> r.ok, val |-> r.val]
    /\ ScraperIdle
    /\ UNCHANGED <<library_db, pc, exit_reason, hist>>

\* LibraryDB() on a fresh library.db: no table yet.
InitDB ==
    /\ library_db = [table_exists |-> FALSE, library_items |-> <<>>]
    /\ pc = "api"
    /\ depth = 0
    /\ driver = "none"
    /\ page_number = 0
    /\ target_item_count = 0
    /\ prev_item_count = None
    /\ book_cards = <<>>
    /\ exit_reason = ""
    /\ ret = NoRet
    /\ hist = Hist0

NextDB ==
    \/ ApiCreateTable
    \/ ApiDeleteTable
    \/ ApiAddLibraryItem
    \/ ApiSetWeightedAverages
    \/ ApiGetItemCount
    \/ ApiGetAllLibraryItems
    \/ ApiQuery

SpecDB == InitDB /\ [][NextDB]_vars

\* The store under resets, inserts and passes of set_weighted_averages, a
\* pass being able to raise part-way.
NextDBFaults ==
    \/ ApiCreateTable
    \/ ApiAddLibraryItem
    \/ ApiSetWeightedAverages
    \/ ApiSetWeightedAveragesFault

SpecDBFaults == InitDB /\ [][NextDBFaults]_vars

-----------------------------------------------------------------------------
(* LibraryDB loaded with a batch of books and then queried, as the         *)
(* populated_db fixture and the tests using it do. The batches are large   *)
(* enough for the rankings to reach their fetchmany caps.                  *)

MaxAuthors == 21    \* most distinct authors in a loaded batch

\* the name of the j-th author of a batch
SampleAuthor(j) == Some(<<Alphabet[18 + j]>>)

\* One item of a batch: a book of author j, with a rating and a count of
\* ratings (rated) or with neither.
SampleBook(j, rated, rating) ==
    [title |-> Some(TxtDune), author |-> SampleAuthor(j), format |-> None,
     pub_year |-> None, rating |-> IF rated THEN Some(rating) ELSE None,
     num_ratings |-> IF rated THEN Some(m) ELSE None, link |-> None]

\* a rated book without an author
AnonBook == [EmptyBook EXCEPT !.rating = Some(300), !.num_ratings = Some(2 * m)]

RECURSIVE SampleItems(_, _)
\* A batch with a authors: author j has one rated book, of rating
\* 5.00 - 0.20 * j, and j - 1 unrated ones; with tie, the last author's
\* rated book has the rating of the author before.
SampleItems(a, tie) ==
    IF a = 0 THEN <<>>
    ELSE SampleItems(a - 1, FALSE)
           \o <<SampleBook(a, TRUE, 500 - 20 * (IF tie /\ a > 1 THEN a - 1 ELSE a))>>
           \o [i \in 1..(a - 1) |-> SampleBook(a, FALSE, 0)]

\* library_items_sample: any number of authors, with or without the book
\* that has no author; the batch with one author more than get_top_* return
\* also comes with a tie between its two lowest-rated books.
SampleBatches ==
    {SampleItems(a, FALSE) \o extra :
       a \in 0..MaxAuthors, extra \in {<<>>, <<AnonBook>>}}
      \cup {SampleItems(TopCap + 1, TRUE)}

\* The store populated_db yields: create_table(), then one add_library_item
\* per item of the batch, each appending its row.
PopulatedStore(batch) ==
    [table_exists |-> TRUE,
     library_items |-> [i \in 1..Len(batch) |-> RowOf(batch[i])]]

\* the state a test using populated_db starts in
InitPopulated ==
    /\ \E batch \in SampleBatches :
         /\ library_db = PopulatedStore(batch)
         /\ hist = [Hist0 EXCEPT !.inserts = Len(batch), !.added = batch]
    /\ pc = "api"
    /\ depth = 0
    /\ driver = "none"
    /\ page_number = 0
    /\ target_item_count = 0
    /\ prev_item_count = None
    /\ book_cards = <<>>
    /\ exit_reason = ""
    /\ ret = NoRet

NextPopulated ==
    \/ ApiSetWeightedAverages
    \/ ApiQuery

SpecPopulated == InitPopulated /\ [][NextPopulated]_vars

-----------------------------------------------------------------------------
(* Properties.                                                             *)

Rows == library_db.library_items
FetchStep == pc = "loop" /\ pc' = "cards"

\* C1: in every store state reached through scrape_library_data, a record
\* has rating set if and only if it has num_ratings set.
RatingIffNumRatings ==
    \A i \in 1..Len(Rows) : IsSome(Rows[i].rating) <=> IsSome(Rows[i].num_ratings)

\* C2: every entry fragment of a fetched page, whichever of its sub-elements
\* are missing or malformed, yields one inserted record and the scrape goes
\* on: processing a card never ends the scrape.
EveryCardYieldsARecord ==
    [][(pc = "cards" /\ book_cards # <<>>)
         => (pc' = "cards" /\ Len(Rows') = Len(Rows) + 1)]_vars

\* C3 as claimed: once a page has added no record, the scrape fetches no
\* further page.
NoFetchAfterStagnantPage ==
    [][hist.stagnant_ever => ~FetchStep]_vars

\* C3 as amended: a page that adds no record ends the paging loop of its
\* attempt, which fetches no further page; the scrape itself goes on: the
\* only step after that loop is the restart, on a store reset to empty.
StagnantPageEndsAttemptThenRestart ==
    [][/\ (pc = "cards" /\ book_cards = <<>> /\ Len(Rows) = hist.count_before)
            => pc' = "quit"
       /\ hist.stagnant => ~FetchStep
       /\ (hist.stagnant /\ pc = "reconcile")
            => (/\ pc' = "get_driver"
                /\ Rows' = <<>>
                /\ hist'.restarts = hist.restarts + 1)]_vars

\* C3 witness: a restarted attempt has fetched its page 1 after an earlier
\* attempt ended on a stagnant page.
RefetchAfterStagnantAttempt ==
    /\ hist.stagnant_ever
    /\ ~hist.stagnant
    /\ pc = "cards"
    /\ hist.fetches = 1
    /\ page_number = 1

\* C4: whatever the store held when the scrape was called, a page after
\* which store.count() equals its value just before the page was fetched
\* ends the paging loop: no further page is fetched.
UnchangedCountEndsLoop ==
    [][(/\ pc = "cards"
        /\ book_cards = <<>>
        /\ get_item_count(library_db) = Some(hist.count_before))
         => pc' = "quit"]_vars

\* C5: after the paging loop, the scrape restarts if and only if
\* store.count() differs from the target; the restart resets the store, and
\* the new attempt probes again and starts paging at page 1.
RestartIffCountDiffers ==
    [][/\ pc = "reconcile"
            => /\ (pc' = "get_driver") <=> (Len(Rows) # target_item_count)
               /\ (pc' = "finalize") <=> (Len(Rows) = target_item_count)
               /\ pc' = "get_driver"
                    => /\ library_db' = [table_exists |-> TRUE, library_items |-> <<>>]
                       /\ depth' = depth + 1
       /\ pc = "get_driver" => (pc' = "probe" /\ page_number' = 1)
       /\ pc = "probe" => (pc' \in {"loop", "exit"} /\ page_number' = 1)
       /\ (FetchStep /\ hist.fetches = 0) => page_number = 1]_vars

\* C5 witness: an attempt whose last page overshot the target was followed
\* by a restart, and the new attempt has fetched its page 1.
RestartedAfterOverfullPage ==
    /\ hist.restarts >= 1
    /\ ~hist.stagnant_ever
    /\ pc = "cards"
    /\ page_number = 1
    /\ hist.fetches = 1
    /\ hist.inserts = 0

\* C6: a scrape that returns normally has invoked set_weighted_averages
\* exactly once, however many restarts preceded the success.
RecomputeExactlyOnce ==
    pc = "done" => hist.swa_calls = 1

RECURSIVE SumRatingAt(_, _)
\* the sum of the ratings of the rows at the indices I
SumRatingAt(rows, I) ==
    IF I = {} THEN 0
    ELSE LET i == CHOOSE k \in I : TRUE
         IN Val(rows[i].rating) + SumRatingAt(rows, I \ {i})

Abs(x) == IF x < 0 THEN 0 - x ELSE x

\* C7: right after set_weighted_averages every record with rating R and
\* num_ratings v has bayesian_avg_rating = round((v/(v+20))*R + (20/(v+20))*C, 2),
\* C being the mean rating of all records that have a rating, those without
\* num_ratings included. With C = S/n the exact value, in hundredths, is
\* (v*R*n + 20*S) / (n*(v+20)); the stored value is an integer nearest to it.
BayesianFormulaHolds ==
    (ret.op = "set_weighted_averages" /\ library_db.table_exists)
      => \A i \in 1..Len(Rows) :
           (IsSome(Rows[i].rating) /\ IsSome(Rows[i].num_ratings))
             => /\ IsSome(Rows[i].bayesian_avg_rating)
                /\ LET rated == {k \in 1..Len(Rows) : IsSome(Rows[k].rating)}
                       n == Cardinality(rated)
                       S == SumRatingAt(Rows, rated)
                       v == Val(Rows[i].num_ratings)
                       R == Val(Rows[i].rating)
                       b == Val(Rows[i].bayesian_avg_rating)
                   IN 2 * Abs(b * n * (v + 20) - (v * R * n + 20 * S)) <= n * (v + 20)

\* C7 witness: a pass has just ranked a record while another record, with
\* a rating but no num_ratings, took part in the mean.
RankedBesideRatingOnlyRecord ==
    /\ ret.op = "set_weighted_averages"
    /\ \E i \in 1..Len(Rows) :
         /\ IsSome(Rows[i].num_ratings)
         /\ IsSome(Rows[i].bayesian_avg_rating)
    /\ \E j \in 1..Len(Rows) :
         IsSome(Rows[j].rating) /\ IsNone(Rows[j].num_ratings)

\* C8: a record lacking rating or num_ratings has bayesian_avg_rating null
\* in every store state, whatever inserts and passes came before.
UnratedStaysNull ==
    \A i \in 1..Len(Rows) :
        (IsNone(Rows[i].rating) \/ IsNone(Rows[i].num_ratings))
          => IsNone(Rows[i].bayesian_avg_rating)

\* C8 witness: after a second pass the store holds a ranked record, a record
\* with a rating but no count, and a record with neither.
UnrankedAfterTwoPasses ==
    /\ ret.op = "set_weighted_averages"
    /\ hist.passes >= 2
    /\ \E i \in 1..Len(Rows) : IsSome(Rows[i].bayesian_avg_rating)
    /\ \E j \in 1..Len(Rows) : IsSome(Rows[j].rating) /\ IsNone(Rows[j].num_ratings)
    /\ \E k \in 1..Len(Rows) : IsNone(Rows[k].rating)

\* C9: get_item_count() is the number of successful inserts since the last
\* create_table, 0 right after create_table, and set_weighted_averages
\* leaves it unchanged.
CountEqualsInserts ==
    /\ [](library_db.table_exists => get_item_count(library_db) = Some(hist.inserts))
    /\ [](ret.op = "create_table" => get_item_count(library_db) = Some(0))
    /\ [][ApiSetWeightedAverages
            => get_item_count(library_db)' = get_item_count(library_db)]_vars

\* C9 witness: the count was read after two inserts, one of them of a book
\* without a title, and a pass.
CountReadAfterInsertsAndPass ==
    /\ library_db.table_exists
    /\ hist.inserts >= 2
    /\ hist.passes >= 1
    /\ \E i \in 1..Len(Rows) : IsNone(Rows[i].title)
    /\ ret.op = "get_item_count"
    /\ ret.val = Some(hist.inserts)

\* C10: on an empty table every list-returning query returns the empty
\* list, not None and not an error, also after set_weighted_averages ran.
EmptyStoreQueriesReturnEmptyLists ==
    (library_db.table_exists /\ Rows = <<>>)
      => /\ \A q \in ListQueries : QueryResults(q, library_db) = {Returned(<<>>)}
         /\ get_all_library_items(library_db) = {Returned(<<>>)}
         /\ ret.op \in ListQueries \cup {"get_all_library_items"}
              => (pc = "api" /\ ret.ok /\ ret.val = <<>>)

\* C10 witness: a query answered the empty list after a pass over the
\* empty table.
EmptyListAfterPassOnEmptyTable ==
    /\ library_db.table_exists
    /\ Rows = <<>>
    /\ hist.passes >= 1
    /\ ret.op = "get_top_authors_unweighted"
    /\ ret.ok
    /\ ret.val = <<>>

TopQueries ==
    {"get_top_books_unweighted", "get_top_books_weighted",
     "get_top_authors_unweighted", "get_top_authors_weighted",
     "get_frequent_authors"}

Min(a, b) == IF a < b THEN a ELSE b
RatedRows == {i \in 1..Len(Rows) : IsSome(Rows[i].rating)}
RankedRows == {i \in 1..Len(Rows) : IsSome(Rows[i].bayesian_avg_rating)}

\* the cap of top-N query q
CapOf(q) == IF q = "get_frequent_authors" THEN FrequentCap ELSE TopCap

\* the number of rows or groups of the store that qualify for query q
QualifyingFor(q) ==
    CASE q = "get_top_books_unweighted" -> Cardinality(RatedRows)
      [] q = "get_top_books_weighted" -> Cardinality(RankedRows)
      [] q = "get_top_authors_unweighted" ->
           Cardinality({Rows[i].author : i \in RatedRows})
      [] q = "get_top_authors_weighted" ->
           Cardinality({Rows[i].author : i \in RankedRows})
      [] q = "get_frequent_authors" ->
           Cardinality({Rows[i].author : i \in {k \in 1..Len(Rows) :
                                                  IsSome(Rows[k].author)}})

\* the sort key of a returned row of query q (None: a null key)
SortKeyOf(q, row) ==
    CASE q \in {"get_top_books_unweighted", "get_top_books_weighted"} -> row[3]
      [] q \in {"get_top_authors_unweighted", "get_top_authors_weighted"} -> row[2]
      [] q = "get_frequent_authors" -> Some(row[2])

\* list val has the shape claimed of a result of q on the current store
CappedAndSorted(q, val) ==
    /\ Len(val) <= CapOf(q)
    /\ Len(val) = Min(CapOf(q), QualifyingFor(q))
    /\ \A i \in 1..Len(val) : IsSome(SortKeyOf(q, val[i]))
    /\ \A i \in 1..(Len(val) - 1) :
         Val(SortKeyOf(q, val[i])) >= Val(SortKeyOf(q, val[i + 1]))

\* C11: on every content of the table, each top-N query returns a list of
\* exactly min(cap, number of qualifying rows or groups) rows, the cap being
\* 10 for the four get_top_* queries and 20 for get_frequent_authors, with
\* no null sort key and the sort key non-increasing along the list. This
\* holds of every list the query can return and of the list it did return.
TopQueriesCappedAndSorted ==
    library_db.table_exists
      => \A q \in TopQueries :
           /\ \A r \in QueryResults(q, library_db) :
                r.ok /\ CappedAndSorted(q, r.val)
           /\ ret.op = q => (ret.ok /\ CappedAndSorted(q, ret.val))

\* C11 witness: get_frequent_authors returned exactly 20 rows of a ranked
\* store that holds more than 20 authors and more than 10 ranked books.
FrequentAuthorsCutAtCap ==
    /\ ret.op = "get_frequent_authors"
    /\ Len(ret.val) = FrequentCap
    /\ QualifyingFor("get_frequent_authors") > FrequentCap
    /\ Cardinality(RankedRows) > TopCap
    /\ \A r \in get_top_books_weighted(library_db) : Len(r.val) = TopCap

\* C12 as claimed: get_top_authors_weighted returns one row per stored
\* (author, bayesian_avg_rating) combination, so that an author whose
\* records carry different values appears once per value.
WeightedAuthorsOneRowPerCombination ==
    library_db.table_exists
      => \A r \in get_top_authors_weighted(library_db) :
           Len(r.val) = Min(TopCap,
                            Cardinality({<<Rows[i].author, Rows[i].bayesian_avg_rating>> :
                                           i \in RankedRows}))

\* C12 as amended: get_top_authors_weighted applies no aggregate function,
\* but its GROUP BY author leaves one row per author: no author appears
\* twice, there are min(10, number of authors with a ranked record) rows,
\* and the value beside an author is the bayesian_avg_rating of one of that
\* author's records.
WeightedAuthorsOneRowPerAuthor ==
    library_db.table_exists
      => /\ \A r \in get_top_authors_weighted(library_db) :
              /\ r.ok
              /\ Len(r.val) = Min(TopCap, Cardinality({Rows[i].author : i \in RankedRows}))
              /\ \A i, j \in 1..Len(r.val) : r.val[i][1] = r.val[j][1] => i = j
              /\ \A i \in 1..Len(r.val) :
                   \E k \in RankedRows :
                       /\ Rows[k].author = r.val[i][1]
                       /\ Rows[k].bayesian_avg_rating = r.val[i][2]
         /\ ret.op = "get_top_authors_weighted"
              => [ok |-> ret.ok, val |-> ret.val] \in get_top_authors_weighted(library_db)

\* C12 witness: the query returned a single row for an author who has two
\* ranked records with different values.
OneRowForAuthorWithTwoValues ==
    /\ ret.op = "get_top_authors_weighted"
    /\ Len(ret.val) = 1
    /\ \E i, j \in RankedRows :
         /\ Rows[i].author = Rows[j].author
         /\ Rows[i].author = ret.val[1][1]
         /\ Rows[i].bayesian_avg_rating # Rows[j].bayesian_avg_rating

\* C13: when the probe yields a target of 0 the scrape aborts fatally: the
\* probe step itself ends the process, the store is left as it was (no
\* record inserted or deleted), the attempt has fetched no page, and no
\* set_weighted_averages runs, neither before nor after; nothing happens
\* after the abort.
ZeroProbeAbortsUntouched ==
    /\ [][(pc = "probe" /\ target_item_count' = 0)
            => /\ pc' = "exit"
               /\ exit_reason' = "no_results"
               /\ library_db' = library_db
               /\ hist' = hist
               /\ hist.fetches = 0
               /\ hist.swa_calls = 0]_vars
    /\ [][pc # "exit"]_vars
    /\ [](exit_reason = "no_results"
            => (pc = "exit" /\ target_item_count = 0 /\ hist.swa_calls = 0))

\* C13 witness: the scrape was called on a store holding a record, the
\* probe yielded 0, and the process ended with the record still there.
ZeroProbeLeftStoredRecord ==
    /\ pc = "exit"
    /\ exit_reason = "no_results"
    /\ target_item_count = 0
    /\ hist.restarts = 0
    /\ Len(Rows) = 1

\* C14: a fault while starting the browsing session, probing or fetching a
\* page ends the whole scrape: the process has exited, and nothing happens
\* afterwards (no page is fetched, no restart, no recompute); the fault
\* step itself leaves the store alone. A restart is only ever taken from
\* line 172 with a count that differs from the target.
BrowsingFaultIsFatal ==
    /\ [](hist.fault # "" => pc = "exit")
    /\ [][hist.fault = ""]_vars
    /\ [][hist'.fault # hist.fault
            => /\ library_db' = library_db
               /\ hist'.restarts = hist.restarts
               /\ hist'.swa_calls = hist.swa_calls
               /\ hist'.fetches = hist.fetches]_vars
    /\ [][hist'.restarts # hist.restarts
            => /\ pc = "reconcile"
               /\ get_item_count(library_db) # Some(target_item_count)
               /\ hist.fault = ""]_vars

\* C14 witness: a page load failed in a restarted attempt that had already
\* stored a record; the process ended there, with no recompute.
FetchFaultEndedRestartedAttempt ==
    /\ pc = "exit"
    /\ hist.fault = "fetch"
    /\ hist.restarts >= 1
    /\ Len(Rows) >= 1
    /\ hist.swa_calls = 0
    /\ depth >= 1

\* C15: a store operation that raises during the scrape ends the process:
\* a failed insert is never dropped while the scrape goes on.
StoreFaultIsFatal ==
    [][hist'.store_faults # hist.store_faults => pc' = "exit"]_vars

\* C16: a restart discards what was accumulated: from the restart until the
\* restarted attempt has issued its probe the store holds no record, and
\* when scrape_library_data has returned, every record of the store was
\* inserted by the last attempt (none is left from an earlier one).
RestartDiscardsEarlierRecords ==
    /\ [][hist'.restarts # hist.restarts => Rows' = <<>>]_vars
    /\ []((hist.restarts >= 1 /\ pc \in {"get_driver", "probe"}) => Rows = <<>>)
    /\ [][(pc = "probe" /\ hist.restarts >= 1) => Rows' = <<>>]_vars
    /\ [](pc = "done" => (depth = 0 /\ Len(Rows) = hist.inserts))

\* C16 witness: an attempt overshot the target (it stored at least two
\* records), a restart followed, and the scrape returned with one record.
ReturnedWithLastAttemptOnly ==
    /\ pc = "done"
    /\ hist.restarts >= 1
    /\ ~hist.stagnant_ever
    /\ Len(Rows) = 1
    /\ hist.inserts = 1

\* C17: the k-th page an attempt fetches is page k (pages 1, 2, 3, ... with
\* no gap and no repeat), a page is fetched only when every card of the
\* page before has been processed, and every attempt, restarted or not,
\* begins with no page fetched, so that its first fetch is page 1.
PagesFetchedInSequence ==
    /\ [][FetchStep => (/\ page_number = hist.fetches + 1
                        /\ page_number' = page_number
                        /\ hist'.fetches = hist.fetches + 1
                        /\ book_cards = <<>>)]_vars
    /\ [][pc = "cards" => page_number' \in {page_number, page_number + 1}]_vars
    /\ [](pc \in {"get_driver", "probe"} => hist.fetches = 0)
    /\ [](pc = "probe" => page_number = 1)

\* C17 witness: a restarted attempt has fetched its second page.
SecondPageOfRestartedAttempt ==
    /\ pc = "cards"
    /\ hist.restarts >= 1
    /\ page_number = 2
    /\ hist.fetches = 2

\* the record add_library_item stores for a book, in an empty table
StoredFor(book) ==
    add_library_item([table_exists |-> TRUE, library_items |-> <<>>],
                     book).library_items[1]

\* C18: processing a fragment that has no star-rating element stores one
\* record with rating and num_ratings null, whose title, author, format,
\* pub_year and link are those of the record stored for the same fragment
\* with a star-rating element, whatever that element holds.
MissingRatingLeavesOtherFields ==
    [][(/\ pc = "cards"
        /\ book_cards # <<>>
        /\ IsSome(Head(book_cards).title_content)
        /\ IsNone(Head(book_cards).rating_stars))
         => /\ Len(Rows') = Len(Rows) + 1
            /\ LET r == Rows'[Len(Rows')]
               IN /\ IsNone(r.rating)
                  /\ IsNone(r.num_ratings)
                  /\ \A stars \in {TxtStars45, TxtStars3, TxtStarsBad} :
                       LET w == StoredFor(BookOf([Head(book_cards) EXCEPT
                                                    !.rating_stars = Some(stars)]))
                       IN /\ r.title = w.title
                          /\ r.author = w.author
                          /\ r.format = w.format
                          /\ r.pub_year = w.pub_year
                          /\ r.link = w.link]_vars

\* C18 witness: a record without rating and num_ratings was stored for a
\* fragment whose rating count was present, with all its other fields set.
UnratedRecordWithOtherFields ==
    /\ pc = "cards"
    /\ book_cards = <<>>
    /\ Len(Rows) = 1
    /\ IsNone(Rows[1].rating)
    /\ IsNone(Rows[1].num_ratings)
    /\ Rows[1].title = Some(TxtDune \o <<":", " ">> \o TxtSaga)
    /\ IsSome(Rows[1].author)
    /\ Rows[1].format = Some(<<"B", "o", "o", "k">>)
    /\ Rows[1].pub_year = Some(1965)
    /\ Rows[1].link = Some(TxtHref)

\* the formats the data model names: physical book, e-book, paperback,
\* graphic novel, large print, board book, as the catalog and the sample
\* data spell them
FormatVocabulary ==
    {<<"B", "o", "o", "k">>, <<"B", "O", "O", "K">>,
     <<"e", "B", "o", "o", "k">>, <<"E", "B", "O", "O", "K">>,
     <<"P", "a", "p", "e", "r", "b", "a", "c", "k">>,
     <<"P", "A", "P", "E", "R", "B", "A", "C", "K">>,
     <<"G", "r", "a", "p", "h", "i", "c", " ", "N", "o", "v", "e", "l">>,
     <<"G", "R", "A", "P", "H", "I", "C", " ", "N", "O", "V", "E", "L">>,
     <<"L", "a", "r", "g", "e", " ", "P", "r", "i", "n", "t">>,
     <<"L", "A", "R", "G", "E", " ", "P", "R", "I", "N", "T">>,
     <<"B", "o", "a", "r", "d", " ", "B", "o", "o", "k">>,
     <<"B", "O", "A", "R", "D", " ", "B", "O", "O", "K">>}

\* C19: every record stored by the scrape has a format that is absent or
\* one of the recognized formats.
StoredFormatInVocabulary ==
    \A i \in 1..Len(Rows) :
        IsSome(Rows[i].format) => Val(Rows[i].format) \in FormatVocabulary

\* C20: every record stored by the scrape has pub_year absent or at least
\* 1000; a card whose descriptor carries a year below 1000 is stored with
\* pub_year absent and with format the first token of the descriptor.
StoredYearAtLeast1000 ==
    /\ [](\A i \in 1..Len(Rows) :
            IsSome(Rows[i].pub_year) => Val(Rows[i].pub_year) >= 1000)
    /\ [][(/\ pc = "cards"
           /\ book_cards # <<>>
           /\ IsSome(Head(book_cards).title_content)
           /\ IsSome(Head(book_cards).display_info_primary))
            => LET parts == Split(Val(Head(book_cards).display_info_primary),
                                  <<",", " ">>, -1)
                   r == Rows'[Len(Rows')]
               IN (/\ Len(parts) >= 2
                   /\ IsSome(ParseInt(parts[2]))
                   /\ Val(ParseInt(parts[2])) < 1000)
                    => /\ Len(Rows') = Len(Rows) + 1
                       /\ IsNone(r.pub_year)
                       /\ r.format = Some(parts[1])]_vars

\* C20 witness: the card with the descriptor "Zine, 999" was stored without
\* a year and with its first token as format.
YearBelow1000Discarded ==
    /\ pc = "cards"
    /\ Len(Rows) >= 1
    /\ IsNone(Rows[Len(Rows)].pub_year)
    /\ Rows[Len(Rows)].format = Some(<<"Z", "i", "n", "e">>)
    /\ Rows[Len(Rows)].rating = Some(300)

\* C21: bayesian_avg_rating is non-null only as the result of a ranking
\* pass: the record an insert adds has it null, every record has it null
\* while no pass has run since the table was created, a non-null value is
\* only found on a record that has rating and num_ratings, and right after
\* a pass the records with a non-null value are exactly those that have
\* both rating and num_ratings.
RankedOnlyByAPass ==
    /\ [][Len(Rows') = Len(Rows) + 1
            => IsNone(Rows'[Len(Rows')].bayesian_avg_rating)]_vars
    /\ [](hist.passes = 0 => \A i \in 1..Len(Rows) : IsNone(Rows[i].bayesian_avg_rating))
    /\ [](\A i \in 1..Len(Rows) :
            IsSome(Rows[i].bayesian_avg_rating) => Qualifies(Rows[i]))
    /\ [](ret.op = "set_weighted_averages"
            => \A i \in 1..Len(Rows) :
                 IsSome(Rows[i].bayesian_avg_rating) <=> Qualifies(Rows[i]))

\* C21 witness: after a pass that ranked a record, a book with rating and
\* num_ratings was inserted; its record is unranked beside the ranked one.
InsertedAfterPassIsUnranked ==
    /\ ret.op = "add_library_item"
    /\ hist.passes >= 1
    /\ Len(Rows) >= 2
    /\ IsSome(Rows[1].bayesian_avg_rating)
    /\ Qualifies(Rows[Len(Rows)])
    /\ IsNone(Rows[Len(Rows)].bayesian_avg_rating)

\* C22: once delete_table has dropped the table, and until it is created
\* again, get_item_count returns None (it neither returns 0 nor raises nor
\* ends the process), whatever number of records the table held; after a
\* following create_table it returns 0.
CountIsNoneAfterDelete ==
    /\ [](ret.op = "delete_table"
            => (~library_db.table_exists /\ get_item_count(library_db) = None))
    /\ [](~library_db.table_exists => get_item_count(library_db) = None)
    /\ []((ret.op = "get_item_count" /\ ~library_db.table_exists)
            => (ret.val = None /\ ~ret.ok))
    /\ [][(ret' # ret /\ ret'.op = "get_item_count")
            => (pc' = "api" /\ exit_reason' = "" /\ library_db' = library_db)]_vars
    /\ [](ret.op = "create_table" => get_item_count(library_db) = Some(0))
    /\ []((ret.op = "get_item_count" /\ library_db.table_exists /\ Rows = <<>>)
            => ret.val = Some(0))

\* C22 witness: the count was read as None after the deletion of a table
\* into which two records had been inserted.
CountReadAsNoneAfterDelete ==
    /\ ret.op = "get_item_count"
    /\ ret.val = None
    /\ ~library_db.table_exists
    /\ hist.inserts >= 2

\* list val is the format distribution of the current store
IsFormatDistribution(val) ==
    LET formats == {Rows[i].format : i \in {k \in 1..Len(Rows) : IsSome(Rows[k].format)}}
    IN /\ Len(val) = Cardinality(formats)
       /\ {val[i][1] : i \in 1..Len(val)} = formats
       /\ \A i \in 1..Len(val) :
            val[i][2] = Cardinality({k \in 1..Len(Rows) : Rows[k].format = val[i][1]})
       /\ \A i, j \in 1..Len(val) :
            i < j => \/ val[i][2] > val[j][2]
                     \/ /\ val[i][2] = val[j][2]
                        /\ StrLess(Val(val[i][1]), Val(val[j][1]))

\* C23: get_format_data returns one (format, count) row per distinct
\* non-absent format of the store, count being the number of records with
\* that format, ordered by count descending and, among equal counts, by
\* format name ascending; records without a format contribute to no row.
\* The result is therefore unique.
FormatDataGroupedAndOrdered ==
    library_db.table_exists
      => /\ \A r \in get_format_data(library_db) : r.ok /\ IsFormatDistribution(r.val)
         /\ Cardinality(get_format_data(library_db)) = 1
         /\ ret.op = "get_format_data" => (ret.ok /\ IsFormatDistribution(ret.val))

\* C23 witness: get_format_data returned two formats with equal counts, in
\* name order, on a store that also holds a record without a format.
EqualCountsInNameOrder ==
    /\ ret.op = "get_format_data"
    /\ ret.val = <<<<Some(<<"B", "o", "o", "k">>), 1>>, <<Some(<<"Z", "i", "n", "e">>), 1>>>>
    /\ \E i \in 1..Len(Rows) : IsNone(Rows[i].format)

\* list val holds the books inserted since the table was created, one row
\* per insert and in the order of the inserts
HoldsTheInsertedBooks(val) ==
    /\ Len(val) = Len(hist.added)
    /\ \A i \in 1..Len(val) :
         /\ val[i][1] = hist.added[i].title
         /\ val[i][2] = hist.added[i].author
         /\ val[i][3] = hist.added[i].format
         /\ val[i][4] = hist.added[i].pub_year
         /\ val[i][5] = hist.added[i].rating
         /\ val[i][6] = hist.added[i].num_ratings
         /\ val[i][8] = hist.added[i].link

\* C24: after the inserts of r1..rn into a table just created, duplicates
\* included, get_all_library_items returns exactly n rows, the i-th with
\* the seven given fields of ri, also after set_weighted_averages.
AllItemsInInsertionOrder ==
    library_db.table_exists
      => /\ \A r \in get_all_library_items(library_db) :
              r.ok /\ HoldsTheInsertedBooks(r.val)
         /\ ret.op = "get_all_library_items" => (ret.ok /\ HoldsTheInsertedBooks(ret.val))

\* C24 witness: after a pass, get_all_library_items returned three rows, the
\* first and the third with the same seven fields, the second with others.
DuplicateRecordsBothReturned ==
    /\ ret.op = "get_all_library_items"
    /\ hist.passes >= 1
    /\ Len(ret.val) = 3
    /\ hist.added[1] = hist.added[3]
    /\ hist.added[1] # hist.added[2]
    /\ ret.val[1][1] = ret.val[3][1]
    /\ ret.val[1][1] # ret.val[2][1]
    /\ IsSome(ret.val[1][7])

\* C25: a set_weighted_averages call either updates every qualifying record
\* of the store (and no other field of any record), or, when it raises
\* part-way, leaves every record as it was and returns to its caller without
\* ending the process.
PassIsAllOrNothing ==
    /\ [][hist'.store_faults # hist.store_faults
            => /\ library_db' = library_db
               /\ ret'.op = "set_weighted_averages" /\ ~ret'.ok
               /\ pc' = "api" /\ exit_reason' = ""]_vars
    /\ [][(hist'.passes = hist.passes + 1 /\ library_db.table_exists)
            => /\ Len(library_db'.library_items) = Len(library_db.library_items)
               /\ \A i \in 1..Len(library_db.library_items) :
                    LET old == library_db.library_items[i]
                        new == library_db'.library_items[i]
                    IN /\ [new EXCEPT !.bayesian_avg_rating = None]
                            = [old EXCEPT !.bayesian_avg_rating = None]
                       /\ Qualifies(old) => IsSome(new.bayesian_avg_rating)
                       /\ ~Qualifies(old)
                            => new.bayesian_avg_rating = old.bayesian_avg_rating]_vars

\* C25 witness: a pass raised at its second row or later, after the UPDATE
\* of a qualifying record that had no ranking; that record still has none.
FaultedPassLeftFirstRowUnranked ==
    /\ ret.op = "set_weighted_averages" /\ ~ret.ok
    /\ pc = "api"
    /\ hist.fault_row >= 2
    /\ Qualifies(Rows[1])
    /\ Rows[1].bayesian_avg_rating = None

\* C26: when scrape_library_data has returned normally, the number of stored
\* records is the total probed by the most recent attempt, the last store
\* operation of the scrape was a recompute that no insert followed, and
\* every record with rating and num_ratings carries the Bayesian value
\* computed with the mean of the final store.
NormalReturnIsPopulatedAndRanked ==
    /\ [](pc = "done"
            => /\ get_item_count(library_db) = Some(target_item_count)
               /\ hist.swa_calls >= 1
               /\ \A i \in 1..Len(Rows) :
                    Qualifies(Rows[i])
                      => /\ IsSome(Rows[i].bayesian_avg_rating)
                         /\ Val(Rows[i].bayesian_avg_rating)
                              \in BayesianAvgSet(Val(Rows[i].num_ratings),
                                                 Val(Rows[i].rating),
                                                 SumRating(Rows), CountRating(Rows)))
    /\ [][pc = "finalize"
            => /\ pc' \in {"finalize", "done"}
               /\ hist'.swa_calls = hist.swa_calls + 1
               /\ Len(library_db'.library_items) = Len(library_db.library_items)]_vars
    /\ [][pc' = "done" => pc \in {"finalize", "done"}]_vars

\* C26 witness: the scrape returned normally after a restart, an earlier
\* attempt having probed another total than the last one, with a ranked
\* record in the store.
ReturnedAfterAnotherTarget ==
    /\ pc = "done"
    /\ hist.restarts >= 1
    /\ hist.restarted_target # target_item_count
    /\ \E i \in 1..Len(Rows) : Qualifies(Rows[i])

\* C27: an attempt on a store that was empty at its start fetches at most
\* as many pages as its probed total, every page that is followed by another
\* fetch has increased the number of records, the loop is left only with the
\* count at or above the total or after a page that added nothing, and an
\* attempt in its loop always comes to leave it (or to end the process).
AttemptFetchesAtMostTargetPages ==
    /\ [](hist.fetches <= target_item_count)
    /\ [][(FetchStep /\ hist.fetches >= 1)
            => Len(library_db.library_items) > hist.count_before]_vars
    /\ [][(pc # "quit" /\ pc' = "quit")
            => \/ Len(library_db.library_items) >= target_item_count
               \/ Len(library_db.library_items) = hist.count_before]_vars
    /\ [][ProcessCard <=> ProcessCatalogCard]_vars
    /\ (pc \in {"loop", "cards"}) ~> (pc \in {"quit", "exit"})

\* C27 witness: an attempt with a total of MaxTarget left its loop after as
\* many pages, the last of which added nothing.
LoopLeftAfterTargetPages ==
    /\ pc = "quit"
    /\ target_item_count = MaxTarget
    /\ hist.fetches = MaxTarget
    /\ hist.stagnant
    /\ Len(Rows) < target_item_count

\* C28: whenever the scrape has ended, by a normal return or by sys.exit,
\* the browsing session of the frame is not left open, and a restart is
\* taken only after the session of the restarting attempt was closed.
SessionClosedOnEveryExit ==
    /\ [](pc \in {"done", "exit"} => driver # "open")
    /\ [][(pc = "reconcile" /\ pc' = "get_driver") => driver = "closed"]_vars

=============================================================================
